---- MODULE Spec2Model ----
(***************************************************************************)
(* Model of src/src/main.py: a Telegram group-chat bot that records every  *)
(* group message in a rolling per-chat history and, when mentioned,        *)
(* forwards the prompt with that history to the Grok completion service.   *)
(*                                                                         *)
(* Strings are sequences of one-character strings.  Three non-ASCII        *)
(* characters of the source are written as one-element tokens: ELLIPSIS,   *)
(* EN_DASH and APOSTROPHE.  Python's None is the value None below for      *)
(* strings and 0 for the bot id (real ids are positive).                   *)
(***************************************************************************)
EXTENDS Integers, Sequences, FiniteSets, TLC

VARIABLES
    env,                    \* the process environment read by os.getenv
    mainpc,                 \* position of the module body / main()
    BOT_USERNAME,           \* global, None until ensure_identity sets it
    BOT_DISPLAY,            \* global
    BOT_ID,                 \* global
    MAX_SNIPPET_LEN,        \* global, set while the module loads
    MESSAGE_HISTORY_LIMIT,  \* global, set while the module loads
    HISTORY,                \* _HISTORY: chat id -> deque of <<is_bot, line>>
    getMeCalls,             \* number of bot.get_me() calls issued
    handlers,               \* one record per handle_group task
    appended                \* every entry ever appended to _HISTORY, per chat

vars == <<env, mainpc, BOT_USERNAME, BOT_DISPLAY, BOT_ID, MAX_SNIPPET_LEN,
          MESSAGE_HISTORY_LIMIT, HISTORY, getMeCalls, handlers, appended>>

----------------------------------------------------------------------------
(* Bounds *)

MaxMsgs == 2        \* messages the transport delivers in one run
MaxCapacity == 2    \* the MESSAGE_LIMIT setting tried besides 0
MaxTextLen == 3     \* longest message text given to format_line
MaxSnippet == 4     \* largest MAX_SNIPPET_LEN setting given to format_line

----------------------------------------------------------------------------
(* Characters and string constants of the source *)

None == <<"None">>
NL == "\n"
ELLIPSIS == "ELLIPSIS"
Whitespace == {" ", NL}

MISSING_KEY == <<"<", "X", "A", "I", "_", "A", "P", "I", "_", "K", "E", "Y", " ", "m", "i", "s", "s", "i", "n", "g", ">">>
MALFORMED == <<"<", "G", "r", "o", "k", " ", "r", "e", "s", "p", "o", "n", "s", "e", " ", "m", "a", "l", "f", "o", "r", "m", "e", "d", " ", "EN_DASH", " ", "e", "x", "p", "e", "c", "t", "e", "d", " ", "J", "S", "O", "N", ">">>
API_ERROR_PREFIX == <<"<", "G", "r", "o", "k", " ", "A", "P", "I", " ", "e", "r", "r", "o", "r", " ", "EN_DASH", " ">>
HINT_PREFIX == <<"A", "d", "d", " ", "a", " ", "p", "r", "o", "m", "p", "t", " ", "a", "f", "t", "e", "r", " ", "m", "e", "n", "t", "i", "o", "n", "i", "n", "g", " ", "m", "e", ",", " ", "e", ".", "g", ".", " ">>
HINT_SUFFIX == <<" ", "w", "h", "a", "t", "APOSTROPHE", "s", " ", "u", "p", "?">>
CHAT_HISTORY_LABEL == <<"C", "h", "a", "t", " ", "h", "i", "s", "t", "o", "r", "y", ":", NL>>
REPLIED_LABEL == <<"R", "e", "p", "l", "i", "e", "d", " ", "m", "e", "s", "s", "a", "g", "e", ":", NL>>
PROMPT_LABEL == <<"U", "s", "e", "r", " ", "p", "r", "o", "m", "p", "t", ":", NL>>
YOU_SUFFIX == <<" ", "(", "y", "o", "u", ")", ":", " ">>

----------------------------------------------------------------------------
(* Python string primitives *)

\* bool(s) for an Optional[str]: None and "" are falsy
Truthy(s) == s # None /\ s # <<>>

\* a or b
Or2(a, b) == IF Truthy(a) THEN a ELSE b

\* s[:k], k may be negative
Slice(s, k) ==
    IF k >= 0
      THEN SubSeq(s, 1, IF k < Len(s) THEN k ELSE Len(s))
      ELSE SubSeq(s, 1, IF Len(s) + k > 0 THEN Len(s) + k ELSE 0)

\* c.lower() on the characters used here
LowerChar(c) ==
    CASE c = "A" -> "a"
      [] c = "B" -> "b"
      [] c = "J" -> "j"
      [] c = "X" -> "x"
      [] OTHER -> c

\* s.lower()
Lower(s) == [i \in 1..Len(s) |-> LowerChar(s[i])]

\* s[i:].startswith(sub), i is 1-based
StartsAt(s, sub, i) ==
    /\ i + Len(sub) - 1 <= Len(s)
    /\ \A j \in 1..Len(sub) : s[i + j - 1] = sub[j]

\* sub in s
Contains(s, sub) == \E i \in 1..(Len(s) + 1) : StartsAt(s, sub, i)

RECURSIVE ReplaceFrom(_, _, _, _)
\* s.replace(old, new): left to right, non-overlapping, old non-empty
ReplaceFrom(s, old, new, i) ==
    IF i > Len(s) THEN <<>>
    ELSE IF StartsAt(s, old, i)
      THEN new \o ReplaceFrom(s, old, new, i + Len(old))
      ELSE <<s[i]>> \o ReplaceFrom(s, old, new, i + 1)

Replace(s, old, new) == ReplaceFrom(s, old, new, 1)

RECURSIVE LStrip(_)
LStrip(s) ==
    IF s # <<>> /\ Head(s) \in Whitespace THEN LStrip(Tail(s)) ELSE s

RECURSIVE RStrip(_)
RStrip(s) ==
    IF s # <<>> /\ s[Len(s)] \in Whitespace
      THEN RStrip(SubSeq(s, 1, Len(s) - 1)) ELSE s

\* s.strip()
Strip(s) == RStrip(LStrip(s))

RECURSIVE Join(_, _)
\* sep.join(parts)
Join(sep, parts) ==
    IF parts = <<>> THEN <<>>
    ELSE IF Len(parts) = 1 THEN parts[1]
    ELSE parts[1] \o sep \o Join(sep, Tail(parts))

\* [x for x in parts if x]   (filter(None, parts))
FilterTruthy(parts) == SelectSeq(parts, Truthy)

DigitVal(c) ==
    CASE c = "0" -> 0 [] c = "1" -> 1 [] c = "2" -> 2 [] c = "3" -> 3
      [] c = "4" -> 4 [] c = "5" -> 5 [] c = "6" -> 6 [] c = "7" -> 7
      [] c = "8" -> 8 [] c = "9" -> 9

RECURSIVE IntOf(_)
\* int(s) for a string of decimal digits
IntOf(s) ==
    IF Len(s) = 1 THEN DigitVal(s[1])
    ELSE 10 * IntOf(SubSeq(s, 1, Len(s) - 1)) + DigitVal(s[Len(s)])

DigitChar(n) == <<"0", "1", "2", "3", "4", "5", "6", "7", "8", "9">>[n + 1]

RECURSIVE StrOfInt(_)
\* the decimal rendering of a natural number, as found in a .env file
StrOfInt(n) ==
    IF n < 10 THEN <<DigitChar(n)>>
    ELSE StrOfInt(n \div 10) \o <<DigitChar(n % 10)>>

----------------------------------------------------------------------------
(* Telegram objects *)

Chats == {1, 2}

\* types.User values; last_name and username are optional
Alice == [id |-> 1, first_name |-> <<"A">>, last_name |-> None, username |-> <<"a">>]
Carol == [id |-> 2, first_name |-> <<"C">>, last_name |-> <<"J">>, username |-> None]

\* the User that bot.get_me() returns
Me == [id |-> 9, first_name |-> <<"G">>, last_name |-> None, username |-> <<"B">>]

\* msg.content_type as line 90 renders it inside the f-string: the member
\* TEXT of aiogram's ContentType, a (str, Enum) class, is formatted by
\* Enum.__format__, which gives the member's name with its class (Python
\* 3.11 and later; earlier interpreters gave the value "text")
TEXT_TYPE ==
    <<"C", "o", "n", "t", "e", "n", "t", "T", "y", "p", "e", ".",
      "T", "E", "X", "T">>

\* msg.reply_to_message is None
NoReply == [present |-> FALSE]

\* a replied-to message, as far as format_line reads it
Replied(u, t) ==
    [present |-> TRUE, from_user |-> u, text |-> t, caption |-> None,
     content_type |-> TEXT_TYPE]

\* types.Message for an inbound group message
Message(c, u, t, r) ==
    [chat |-> c, from_user |-> u, text |-> t, caption |-> None,
     content_type |-> TEXT_TYPE, reply_to_message |-> r]

\* a mention followed by a prompt
QUERY == <<"@", "b", " ", "x">>

\* message texts the transport delivers
SampleTexts ==
    { <<"x">>,          \* chatter, bot not mentioned
      QUERY,
      <<"@", "b">>,     \* mention only
      <<"@", "B">> }    \* mention only, typed with a capital letter

ReplyTargets == {NoReply, Replied(Alice, <<"x">>)}

\* inbound messages: in chat 1 Alice sends every sample text, the query
\* also as a reply to another message; in chat 2 Carol chats and asks
Messages ==
    { Message(1, Alice, t, NoReply) : t \in SampleTexts }
    \cup { Message(1, Alice, QUERY, r) : r \in ReplyTargets }
    \cup { Message(2, Carol, t, NoReply) : t \in {<<"x">>, QUERY} }

\* what client.post / raise_for_status / r.json() can produce.  A non-2xx
\* status (HTTPStatusError from line 160), a connection failure and a timeout
\* (ConnectError, TimeoutException from line 155) are all httpx.HTTPError
\* and form one kind; body is then str(exc).
Responses ==
    { [kind |-> "ok", body |-> <<"o", "k">>],           \* 2xx, choices[0].message.content
      [kind |-> "httperror", body |-> <<"5", "0", "0">>],
      [kind |-> "nonjson", body |-> <<>>],              \* 2xx, body is not JSON
      [kind |-> "nofields", body |-> <<>>] }            \* 2xx, JSON without choices[0].message.content

NoResponse == [kind |-> "none", body |-> <<>>]

----------------------------------------------------------------------------
(* Pure functions of the source *)

\* format_user(u)
format_user(u) ==
    LET name == Join(<<" ">>, FilterTruthy(<<u.first_name, u.last_name>>))
    IN  IF Truthy(u.username)
          THEN name \o <<" ", "(", "@">> \o u.username \o <<")">>
          ELSE name

\* a snippet cut to maxLen characters before the ellipsis is added
Snippet_NoRoom(msg, maxLen) ==
    LET raw == Or2(Or2(msg.text, msg.caption),
                   <<"[">> \o msg.content_type \o <<" ", "m", "e", "s", "s", "a", "g", "e", "]">>)
        text == Replace(raw, <<NL>>, <<" ">>)
    IN  IF Len(text) > maxLen
          THEN Slice(text, maxLen) \o <<ELLIPSIS>>
          ELSE text

\* the snippet part of format_line: lines 90-93
Snippet(msg, maxLen) ==
    LET raw == Or2(Or2(msg.text, msg.caption),
                   <<"[">> \o msg.content_type \o <<" ", "m", "e", "s", "s", "a", "g", "e", "]">>)
        text == Replace(raw, <<NL>>, <<" ">>)
    IN  IF Len(text) > maxLen
          THEN Slice(text, maxLen - 1) \o <<ELLIPSIS>>
          ELSE text

\* format_line(msg, is_bot_msg) with the globals it reads as parameters
FormatLine(msg, is_bot_msg, display, maxLen) ==
    LET text == Snippet(msg, maxLen)
    IN  IF is_bot_msg
          THEN <<">", " ">> \o display \o YOU_SUFFIX \o text
          ELSE <<">", " ">> \o format_user(msg.from_user) \o <<":", " ">> \o text

\* format_line(msg, is_bot_msg)
format_line(msg, is_bot_msg) ==
    FormatLine(msg, is_bot_msg, BOT_DISPLAY, MAX_SNIPPET_LEN)

\* a deque that refuses the new entry when full instead of evicting the oldest
DequeAppend_KeepOldest(d, x, maxlen) ==
    IF Len(d) >= maxlen THEN d ELSE Append(d, x)

\* a deque that puts the new entry at the front (appendleft)
DequeAppend_Front(d, x, maxlen) ==
    IF maxlen = 0 THEN d
    ELSE IF Len(d) >= maxlen THEN <<x>> \o SubSeq(d, 1, Len(d) - 1)
    ELSE <<x>> \o d

\* deque(maxlen=n).append(x)
DequeAppend(d, x, maxlen) ==
    IF maxlen = 0 THEN d
    ELSE IF Len(d) >= maxlen THEN Tail(d) \o <<x>>
    ELSE Append(d, x)

\* a mention check that never returns early
Mentioned_Always(text, handle) == TRUE

\* BOT_USERNAME in (msg.text or "").lower()      line 197
Mentioned(text, handle) == Contains(Lower(Or2(text, <<>>)), handle)

\* (msg.text or "").replace(BOT_USERNAME, "").strip()      line 200
ExtractPrompt(text, handle) == Strip(Replace(Or2(text, <<>>), handle, <<>>))

\* [line for _, line in list(_HISTORY[chat_id])]      line 130
HistoryLines(d) == [i \in 1..Len(d) |-> d[i][2]]

InSeq(x, s) == \E i \in 1..Len(s) : s[i] = x

\* blocks built without the history block
BuildBlocks_NoHistory(history_lines, prompt, replied_line) ==
    (IF Truthy(replied_line) /\ ~InSeq(replied_line, history_lines)
       THEN <<REPLIED_LABEL \o replied_line>> ELSE <<>>)
    \o <<PROMPT_LABEL \o prompt>>

\* blocks built without looking for the replied line in the history
BuildBlocks_NoDedup(history_lines, prompt, replied_line) ==
    (IF history_lines # <<>>
       THEN <<CHAT_HISTORY_LABEL \o Join(<<NL>>, history_lines)>> ELSE <<>>)
    \o (IF Truthy(replied_line)
          THEN <<REPLIED_LABEL \o replied_line>> ELSE <<>>)
    \o <<PROMPT_LABEL \o prompt>>

\* blocks built with the user prompt first
BuildBlocks_PromptFirst(history_lines, prompt, replied_line) ==
    <<PROMPT_LABEL \o prompt>>
    \o (IF history_lines # <<>>
          THEN <<CHAT_HISTORY_LABEL \o Join(<<NL>>, history_lines)>> ELSE <<>>)
    \o (IF Truthy(replied_line) /\ ~InSeq(replied_line, history_lines)
          THEN <<REPLIED_LABEL \o replied_line>> ELSE <<>>)

\* blocks of ask_grok, lines 132-137
BuildBlocks(history_lines, prompt, replied_line) ==
    (IF history_lines # <<>>
       THEN <<CHAT_HISTORY_LABEL \o Join(<<NL>>, history_lines)>> ELSE <<>>)
    \o (IF Truthy(replied_line) /\ ~InSeq(replied_line, history_lines)
          THEN <<REPLIED_LABEL \o replied_line>> ELSE <<>>)
    \o <<PROMPT_LABEL \o prompt>>

\* the user entry of the payload, line 149
UserContent(blocks) == Join(<<NL, NL>>, blocks)

\* what ask_grok does with the outcome of the POST, lines 153-169:
\* a returned string, or an exception that leaves ask_grok
AskGrokResult(resp) ==
    CASE resp.kind = "ok" -> [raised |-> FALSE, text |-> resp.body]
      [] resp.kind = "httperror" ->
            [raised |-> FALSE, text |-> API_ERROR_PREFIX \o resp.body \o <<">">>]
      [] resp.kind = "nonjson" -> [raised |-> FALSE, text |-> MALFORMED]
      [] resp.kind = "nofields" -> [raised |-> TRUE, text |-> None]

----------------------------------------------------------------------------
(* State machine *)

Handlers == 1..MaxMsgs

\* task 0 is main(), tasks 1..MaxMsgs are handle_group invocations
Tasks == {0} \cup Handlers

\* values of MAX_SNIPPET_LEN found in the environment
SnippetSettings == {<<"3">>}

\* values of MESSAGE_LIMIT found in the environment
LimitSettings == {StrOfInt(0), StrOfInt(MaxCapacity)}

Environments ==
    [BOT_TOKEN : {None, <<"t">>},
     XAI_API_KEY : {None, <<"k">>},
     MAX_SNIPPET_LEN : {None} \cup SnippetSettings,
     MESSAGE_LIMIT : {None} \cup LimitSettings]

\* a global that the module body has not assigned yet
Unset == -1

\* besides the locals of handle_group and ask_grok the record keeps what the
\* properties ask about a pending query: emptyOnArrival (the buffer was
\* empty when the message came) and overlapped (another handler of the
\* conversation was under way when this one started), both reset when the
\* completion call is over; exc names what a task that raised died of
IdleHandler ==
    [pc |-> "idle", msg |-> NoReply, emptyOnArrival |-> FALSE, prompt |-> None,
     reply |-> None, history_lines |-> <<>>, blocks |-> <<>>, calls |-> 0,
     resp |-> NoResponse,
     answer |-> None, replied |-> None, appends |-> <<>>, overlapped |-> FALSE,
     exc |-> "none"]

Init ==
    /\ env \in Environments
    /\ mainpc = "load"
    /\ BOT_USERNAME = None
    /\ BOT_DISPLAY = None
    /\ BOT_ID = 0
    /\ MAX_SNIPPET_LEN = Unset
    /\ MESSAGE_HISTORY_LIMIT = Unset
    /\ HISTORY = [c \in Chats |-> <<>>]
    /\ getMeCalls = 0
    /\ handlers = [h \in Handlers |-> IdleHandler]
    /\ appended = [c \in Chats |-> <<>>]

\* os.getenv(name)
getenv(name) == env[name]

\* the module body, lines 27-49: RuntimeError for a missing credential,
\* TypeError from int(None) for a missing MAX_SNIPPET_LEN or MESSAGE_LIMIT
LoadOutcome(e) ==
    IF ~Truthy(e.BOT_TOKEN) \/ ~Truthy(e.XAI_API_KEY)
      THEN [pc |-> "crashed", snippet |-> Unset, limit |-> Unset]
    ELSE IF e.MAX_SNIPPET_LEN = None
      THEN [pc |-> "crashed", snippet |-> Unset, limit |-> Unset]
    ELSE IF e.MESSAGE_LIMIT = None
      THEN [pc |-> "crashed", snippet |-> IntOf(e.MAX_SNIPPET_LEN), limit |-> Unset]
    ELSE [pc |-> "main", snippet |-> IntOf(e.MAX_SNIPPET_LEN),
          limit |-> IntOf(e.MESSAGE_LIMIT)]

Load ==
    /\ mainpc = "load"
    /\ LET out == LoadOutcome(env)
       IN  /\ mainpc' = out.pc
           /\ MAX_SNIPPET_LEN' = out.snippet
           /\ MESSAGE_HISTORY_LIMIT' = out.limit
    /\ UNCHANGED <<env, BOT_USERNAME, BOT_DISPLAY, BOT_ID, HISTORY, getMeCalls,
                   handlers, appended>>

\* one deque shared by all conversations
HistoryAppend_Shared(c, entry) ==
    /\ HISTORY' = [k \in Chats |-> DequeAppend(HISTORY[k], entry, MESSAGE_HISTORY_LIMIT)]
    /\ appended' = [appended EXCEPT ![c] = Append(@, entry)]

\* _HISTORY[chat_id].append(entry)
HistoryAppend(c, entry) ==
    /\ HISTORY' = [HISTORY EXCEPT ![c] = DequeAppend(@, entry, MESSAGE_HISTORY_LIMIT)]
    /\ appended' = [appended EXCEPT ![c] = Append(@, entry)]

\* a handler of conversation c other than h has started and not ended
UnderWay(c, h) ==
    \E g \in Handlers \ {h} :
        /\ handlers[g].pc \notin {"idle", "done", "raised"}
        /\ handlers[g].msg.chat = c

\* handle_group from line 192 to its first suspension or return, with the
\* identity (username, display, id) that ensure_identity left in the globals:
\* lines 192-198 (not mentioned), 200-203 (empty prompt), 205-211 (query)
HandleBody(h, m, username, display, id) ==
    LET is_bot_msg == m.from_user.id = id
        entry == <<is_bot_msg, FormatLine(m, is_bot_msg, display, MAX_SNIPPET_LEN)>>
        prompt == ExtractPrompt(m.text, username)
        r == m.reply_to_message
        reply == IF r.present
                   THEN FormatLine(r, r.from_user.id = id, display, MAX_SNIPPET_LEN)
                   ELSE None
        seen == [IdleHandler EXCEPT !.msg = m, !.appends = <<entry>>]
    IN  /\ HistoryAppend(m.chat, entry)
        /\ handlers' = [handlers EXCEPT ![h] =
              IF ~Mentioned(m.text, username)
                THEN [seen EXCEPT !.pc = "done"]
              ELSE IF ~Truthy(prompt)
                THEN [seen EXCEPT !.pc = "hint", !.prompt = prompt]
              ELSE [seen EXCEPT !.pc = "typing", !.prompt = prompt, !.reply = reply,
                                !.emptyOnArrival = (HISTORY[m.chat] = <<>>),
                                !.overlapped = UnderWay(m.chat, h)]]

\* a main() that starts polling without awaiting ensure_identity()
CallGetMe_Skipped ==
    /\ mainpc = "main"
    /\ mainpc' = "polling"
    /\ UNCHANGED <<env, BOT_USERNAME, BOT_DISPLAY, BOT_ID, MAX_SNIPPET_LEN,
                   MESSAGE_HISTORY_LIMIT, HISTORY, getMeCalls, handlers, appended>>

\* ensure_identity, lines 57-58, called by main() at line 220 when the
\* identity is unknown: bot.get_me() is issued
CallGetMe ==
    /\ mainpc = "main"
    /\ BOT_USERNAME = None
    /\ getMeCalls' = getMeCalls + 1
    /\ mainpc' = "get_me"
    /\ UNCHANGED <<env, BOT_USERNAME, BOT_DISPLAY, BOT_ID, MAX_SNIPPET_LEN,
                   MESSAGE_HISTORY_LIMIT, HISTORY, handlers, appended>>

PcOf(t) == IF t = 0 THEN mainpc ELSE handlers[t].pc

\* bot.get_me() returns to ensure_identity, lines 58-61, and the caller goes
\* on without suspension: main() starts polling (line 221), handle_group
\* runs from line 192.  When the call raises (ok = FALSE) the exception
\* leaves ensure_identity and its caller: main() ends, or the handler ends.
GetMeReturn(t, ok) ==
    /\ PcOf(t) = "get_me"
    /\ IF ok
         THEN LET username == <<"@">> \o Lower(Me.username)
                  display == Or2(Me.first_name, <<"B", "o", "t">>)
              IN  /\ BOT_USERNAME' = username
                  /\ BOT_DISPLAY' = display
                  /\ BOT_ID' = Me.id
                  /\ IF t = 0
                       THEN mainpc' = "polling" /\ UNCHANGED <<handlers, HISTORY, appended>>
                       ELSE /\ HandleBody(t, handlers[t].msg, username, display, Me.id)
                            /\ UNCHANGED mainpc
         ELSE /\ UNCHANGED <<BOT_USERNAME, BOT_DISPLAY, BOT_ID, HISTORY, appended>>
              /\ IF t = 0
                   THEN mainpc' = "crashed" /\ UNCHANGED handlers
                   ELSE /\ handlers' = [handlers EXCEPT ![t] =
                              [@ EXCEPT !.pc = "raised", !.exc = "telegram"]]
                        /\ UNCHANGED mainpc
    /\ UNCHANGED <<env, MAX_SNIPPET_LEN, MESSAGE_HISTORY_LIMIT, getMeCalls>>

\* the dispatcher runs handle_group on an inbound group message up to its
\* first suspension: await ensure_identity() (line 190) suspends only when
\* the identity is unknown
HandleGroup(h, m) ==
    /\ mainpc = "polling"
    /\ handlers[h].pc = "idle"
    /\ \A g \in Handlers : g < h => handlers[g].pc # "idle"
    /\ IF BOT_USERNAME = None
         THEN /\ handlers' = [handlers EXCEPT ![h] =
                    [IdleHandler EXCEPT !.pc = "get_me", !.msg = m]]
              /\ getMeCalls' = getMeCalls + 1
              /\ UNCHANGED <<HISTORY, appended>>
         ELSE /\ HandleBody(h, m, BOT_USERNAME, BOT_DISPLAY, BOT_ID)
              /\ UNCHANGED getMeCalls
    /\ UNCHANGED <<env, mainpc, BOT_USERNAME, BOT_DISPLAY, BOT_ID, MAX_SNIPPET_LEN,
                   MESSAGE_HISTORY_LIMIT>>

Finished(h) == handlers[h].pc \in {"done", "raised"}

\* the usage hint text, line 202
UsageHint == HINT_PREFIX \o BOT_USERNAME \o HINT_SUFFIX

\* msg.reply(hint) completes, line 202-203, or raises (ok = FALSE) and the
\* exception leaves handle_group
HintSent(h, ok) ==
    /\ handlers[h].pc = "hint"
    /\ handlers' = [handlers EXCEPT ![h] =
          IF ok
            THEN [@ EXCEPT !.pc = "done", !.replied = UsageHint, !.prompt = None]
            ELSE [@ EXCEPT !.pc = "raised", !.exc = "telegram", !.prompt = None]]
    /\ UNCHANGED <<env, mainpc, BOT_USERNAME, BOT_DISPLAY, BOT_ID, MAX_SNIPPET_LEN,
                   MESSAGE_HISTORY_LIMIT, HISTORY, getMeCalls, appended>>

\* an ask_grok that takes the lines out of the deque instead of copying them
AskGrokStart_Drain(h, ok) ==
    /\ handlers[h].pc = "typing"
    /\ LET hr == handlers[h]
           history_lines == HistoryLines(HISTORY[hr.msg.chat])
       IN  /\ handlers' = [handlers EXCEPT ![h] =
                 IF ~ok
                   THEN [@ EXCEPT !.pc = "raised", !.exc = "telegram",
                                  !.prompt = None, !.reply = None,
                                  !.emptyOnArrival = FALSE, !.overlapped = FALSE]
                 ELSE IF ~Truthy(getenv("XAI_API_KEY"))
                   THEN [@ EXCEPT !.pc = "answer", !.answer = MISSING_KEY,
                                  !.emptyOnArrival = FALSE, !.overlapped = FALSE]
                   ELSE [@ EXCEPT !.pc = "post", !.calls = @ + 1,
                                  !.history_lines = history_lines,
                                  !.blocks = BuildBlocks(history_lines, hr.prompt, hr.reply)]]
           /\ HISTORY' = IF ok THEN [HISTORY EXCEPT ![hr.msg.chat] = <<>>] ELSE HISTORY
    /\ UNCHANGED <<env, mainpc, BOT_USERNAME, BOT_DISPLAY, BOT_ID, MAX_SNIPPET_LEN,
                   MESSAGE_HISTORY_LIMIT, getMeCalls, appended>>

\* msg.chat.do("typing") completes (line 211) and ask_grok runs up to the
\* POST (lines 127-159), or chat.do raises (ok = FALSE) and the exception
\* leaves handle_group
AskGrokStart(h, ok) ==
    /\ handlers[h].pc = "typing"
    /\ LET hr == handlers[h]
           history_lines == HistoryLines(HISTORY[hr.msg.chat])
       IN  handlers' = [handlers EXCEPT ![h] =
              IF ~ok
                THEN [@ EXCEPT !.pc = "raised", !.exc = "telegram",
                               !.prompt = None, !.reply = None,
                               !.emptyOnArrival = FALSE, !.overlapped = FALSE]
              ELSE IF ~Truthy(getenv("XAI_API_KEY"))
                THEN [@ EXCEPT !.pc = "answer", !.answer = MISSING_KEY,
                               !.emptyOnArrival = FALSE, !.overlapped = FALSE]
                ELSE [@ EXCEPT !.pc = "post", !.calls = @ + 1,
                               !.history_lines = history_lines,
                               !.blocks = BuildBlocks(history_lines, hr.prompt, hr.reply)]]
    /\ UNCHANGED <<env, mainpc, BOT_USERNAME, BOT_DISPLAY, BOT_ID, MAX_SNIPPET_LEN,
                   MESSAGE_HISTORY_LIMIT, HISTORY, getMeCalls, appended>>

\* client.post completes or fails (lines 155-160); what ask_grok will return
\* or raise is decided by lines 160-169, and leaving the `async with` of
\* line 153 suspends ask_grok while the client closes.  The request and the
\* snapshot are not read again.
PostReturn(h, resp) ==
    /\ handlers[h].pc = "post"
    /\ handlers' = [handlers EXCEPT ![h] =
          [@ EXCEPT !.pc = "closing", !.resp = resp, !.blocks = <<>>,
                    !.history_lines = <<>>,
                    !.emptyOnArrival = FALSE, !.overlapped = FALSE]]
    /\ UNCHANGED <<env, mainpc, BOT_USERNAME, BOT_DISPLAY, BOT_ID, MAX_SNIPPET_LEN,
                   MESSAGE_HISTORY_LIMIT, HISTORY, getMeCalls, appended>>

\* the client is closed: ask_grok returns its string to handle_group, which
\* calls msg.answer (lines 212-214), or the exception of line 167 leaves
\* ask_grok and ends handle_group at line 212
ClientClosed(h) ==
    /\ handlers[h].pc = "closing"
    /\ LET res == AskGrokResult(handlers[h].resp)
       IN  handlers' = [handlers EXCEPT ![h] =
              IF res.raised
                THEN [@ EXCEPT !.pc = "raised", !.exc = "lookup",
                               !.prompt = None, !.reply = None]
                ELSE [@ EXCEPT !.pc = "answer", !.answer = res.text]]
    /\ UNCHANGED <<env, mainpc, BOT_USERNAME, BOT_DISPLAY, BOT_ID, MAX_SNIPPET_LEN,
                   MESSAGE_HISTORY_LIMIT, HISTORY, getMeCalls, appended>>

\* the Message that msg.answer(text) returns when Telegram accepts the send:
\* a text message of the bot in the same chat.  Its text is taken to be the
\* string passed; under parse_mode=HTML (line 38) that is what Telegram
\* returns for a text without markup characters, and for the bracketed
\* placeholders it is an assumption about the transport.
SentMessage(c, text) ==
    [chat |-> c, from_user |-> Me, text |-> text, caption |-> None,
     content_type |-> TEXT_TYPE, reply_to_message |-> NoReply]

\* msg.answer(answer) completes and the bot's line is appended (lines
\* 214-216), or msg.answer raises (ok = FALSE): the exception leaves
\* handle_group at line 214 and line 216 is not reached
AnswerSent(h, ok) ==
    /\ handlers[h].pc = "answer"
    /\ LET hr == handlers[h]
           sent == SentMessage(hr.msg.chat, hr.answer)
           entry == <<TRUE, format_line(sent, TRUE)>>
       IN  IF ok
             THEN /\ HistoryAppend(hr.msg.chat, entry)
                  /\ handlers' = [handlers EXCEPT ![h] =
                        [@ EXCEPT !.pc = "done", !.replied = hr.answer, !.prompt = None,
                                  !.reply = None, !.answer = None,
                                  !.appends = Append(@, entry)]]
             ELSE /\ handlers' = [handlers EXCEPT ![h] =
                        [@ EXCEPT !.pc = "raised", !.exc = "telegram", !.prompt = None,
                                  !.reply = None, !.answer = None]]
                  /\ UNCHANGED <<HISTORY, appended>>
    /\ UNCHANGED <<env, mainpc, BOT_USERNAME, BOT_DISPLAY, BOT_ID, MAX_SNIPPET_LEN,
                   MESSAGE_HISTORY_LIMIT, getMeCalls>>

Next ==
    \/ Load
    \/ CallGetMe
    \/ \E t \in Tasks, ok \in BOOLEAN : GetMeReturn(t, ok)
    \/ \E h \in Handlers, m \in Messages : HandleGroup(h, m)
    \/ \E h \in Handlers, ok \in BOOLEAN : HintSent(h, ok)
    \/ \E h \in Handlers, ok \in BOOLEAN : AskGrokStart(h, ok)
    \/ \E h \in Handlers, resp \in Responses : PostReturn(h, resp)
    \/ \E h \in Handlers : ClientClosed(h)
    \/ \E h \in Handlers, ok \in BOOLEAN : AnswerSent(h, ok)

Spec == Init /\ [][Next]_vars

----------------------------------------------------------------------------
(* The formatter on its own: one message, any text, author and setting *)

\* a user whose first name holds a line break
Dave == [id |-> 3, first_name |-> <<"D", NL, "E">>, last_name |-> None,
         username |-> None]

FmtUsers == {Alice, Carol, Dave}

\* the member PHOTO of ContentType, as line 90 renders it
PHOTO_TYPE ==
    <<"C", "o", "n", "t", "e", "n", "t", "T", "y", "p", "e", ".",
      "P", "H", "O", "T", "O">>

\* types.Message for a photo, with or without caption
Photo(c, u, cap) ==
    [chat |-> c, from_user |-> u, text |-> None, caption |-> cap,
     content_type |-> PHOTO_TYPE, reply_to_message |-> NoReply]

FmtAlphabet == {"x", " ", NL}

\* every text of 1..MaxTextLen characters, and texts that address the bot
FmtTexts ==
    UNION { [1..k -> FmtAlphabet] : k \in 1..MaxTextLen }
    \cup { QUERY, <<"@", "b">>, <<"@", "b", NL, "x", NL, "x">> }

FmtCaptions == {None, <<"x", NL, "x">>, <<"x", "x", "x", "x", "x">>}

FmtMessages ==
    { Message(1, u, t, NoReply) : u \in FmtUsers, t \in FmtTexts }
    \cup { Photo(1, u, cap) : u \in FmtUsers, cap \in FmtCaptions }

\* a completion of several lines, and a failure
FmtResponses ==
    { [kind |-> "ok", body |-> <<"o", NL, "k", NL, "o", "k">>],
      [kind |-> "httperror", body |-> <<"5", "0", "0">>] }

FmtEnvironments ==
    [BOT_TOKEN : {<<"t">>},
     XAI_API_KEY : {<<"k">>},
     MAX_SNIPPET_LEN : {StrOfInt(n) : n \in 0..MaxSnippet},
     MESSAGE_LIMIT : {StrOfInt(MaxCapacity)}]

FormatterInit ==
    /\ env \in FmtEnvironments
    /\ mainpc = "load"
    /\ BOT_USERNAME = None
    /\ BOT_DISPLAY = None
    /\ BOT_ID = 0
    /\ MAX_SNIPPET_LEN = Unset
    /\ MESSAGE_HISTORY_LIMIT = Unset
    /\ HISTORY = [c \in Chats |-> <<>>]
    /\ getMeCalls = 0
    /\ handlers = [h \in Handlers |-> IdleHandler]
    /\ appended = [c \in Chats |-> <<>>]

\* the bot starts and handles one message
FormatterNext ==
    \/ Load
    \/ CallGetMe
    \/ \E ok \in BOOLEAN : GetMeReturn(0, ok)
    \/ \E m \in FmtMessages : HandleGroup(1, m)
    \/ \E ok \in BOOLEAN : HintSent(1, ok)
    \/ \E ok \in BOOLEAN : AskGrokStart(1, ok)
    \/ \E resp \in FmtResponses : PostReturn(1, resp)
    \/ ClientClosed(1)
    \/ \E ok \in BOOLEAN : AnswerSent(1, ok)

FormatterSpec == FormatterInit /\ [][FormatterNext]_vars

----------------------------------------------------------------------------
(* Vocabulary of the properties *)

Min(a, b) == IF a < b THEN a ELSE b

\* the last n elements of s
LastN(s, n) == SubSeq(s, Len(s) - n + 1, Len(s))

IsPrefix(p, s) == Len(p) <= Len(s) /\ SubSeq(s, 1, Len(p)) = p

\* the handle occurs at position i of s, letter case ignored
MentionAt(s, i) ==
    /\ i + Len(BOT_USERNAME) - 1 <= Len(s)
    /\ \A j \in 1..Len(BOT_USERNAME) : LowerChar(s[i + j - 1]) = BOT_USERNAME[j]

\* the message text addresses the bot
Addresses(text) == Truthy(text) /\ \E i \in 1..Len(text) : MentionAt(text, i)

RECURSIVE WithoutMentions(_, _)
\* s from position i on, every mention of the bot removed
WithoutMentions(s, i) ==
    IF i > Len(s) THEN <<>>
    ELSE IF MentionAt(s, i) THEN WithoutMentions(s, i + Len(BOT_USERNAME))
    ELSE <<s[i]>> \o WithoutMentions(s, i + 1)

\* what the user asked: the text without its mentions, trimmed
Residual(text) == Strip(WithoutMentions(text, 1))

\* handler h has read its message and gone past the mention check
Started(h) == handlers[h].pc \notin {"idle", "get_me"}

\* a call of handler h to Telegram (reply, chat action, answer) has raised
TelegramFailed(h) == handlers[h].pc = "raised" /\ handlers[h].exc = "telegram"

\* handler h holds a query: the code found a mention and a non-empty prompt
IsQuery(h) ==
    /\ Mentioned(handlers[h].msg.text, BOT_USERNAME)
    /\ Truthy(ExtractPrompt(handlers[h].msg.text, BOT_USERNAME))

\* the line the bot's own message with this text gets in the history
BotLine(text) ==
    <<">", " ">> \o BOT_DISPLAY \o YOU_SUFFIX
    \o (IF Len(text) > MAX_SNIPPET_LEN
          THEN SubSeq(text, 1, MAX_SNIPPET_LEN - 1) \o <<ELLIPSIS>> ELSE text)

----------------------------------------------------------------------------
(* Properties *)

\* C1: in every conversation the history buffer holds at most `capacity`
\* entries, and they are the most recent min(capacity, total appended)
\* appended entries in append order (FIFO eviction), under every
\* interleaving of handlers.
C1_HistoryIsFifoWindow ==
    mainpc = "polling" =>
        \A c \in Chats :
            /\ Len(HISTORY[c]) <= MESSAGE_HISTORY_LIMIT
            /\ HISTORY[c] = LastN(appended[c],
                                  Min(MESSAGE_HISTORY_LIMIT, Len(appended[c])))

\* an entry was evicted from a buffer of capacity 2
C1_Witness ==
    \E c \in Chats :
        /\ MESSAGE_HISTORY_LIMIT = 2
        /\ Len(appended[c]) > 2
        /\ Len(HISTORY[c]) = 2

\* C2 as stated: a query without replied-to message that arrived in a
\* conversation with empty history gets a request made of the "User prompt"
\* block alone.
C2_OnlyUserPromptBlock ==
    \A h \in Handlers :
        (/\ handlers[h].pc = "post"
         /\ handlers[h].emptyOnArrival
         /\ ~handlers[h].msg.reply_to_message.present)
        => handlers[h].blocks = <<PROMPT_LABEL \o handlers[h].prompt>>

\* C2 amended: such a request ends with the "User prompt" block and has no
\* "Replied message" block; it starts with a "Chat history" block exactly
\* when the capacity is at least 1, because the message's own line is
\* appended before the snapshot is taken.
C2_HistoryBlockUnlessCapacityZero ==
    \A h \in Handlers :
        (/\ handlers[h].pc = "post"
         /\ handlers[h].emptyOnArrival
         /\ ~handlers[h].msg.reply_to_message.present)
        => LET b == handlers[h].blocks
           IN  /\ b # <<>>
               /\ b[Len(b)] = PROMPT_LABEL \o handlers[h].prompt
               /\ \A i \in 1..Len(b) : ~IsPrefix(REPLIED_LABEL, b[i])
               /\ IF MESSAGE_HISTORY_LIMIT >= 1
                    THEN Len(b) = 2 /\ IsPrefix(CHAT_HISTORY_LABEL, b[1])
                    ELSE Len(b) = 1

\* a first query of a conversation is in flight with capacity >= 1
C2_Witness ==
    \E h \in Handlers :
        /\ handlers[h].pc = "post"
        /\ handlers[h].emptyOnArrival
        /\ ~handlers[h].msg.reply_to_message.present
        /\ MESSAGE_HISTORY_LIMIT >= 1
        /\ Len(handlers[h].blocks) = 2

\* C3: every inbound message is appended once, before the mention check;
\* a query (mention with non-empty prompt) whose calls to Telegram succeed
\* ends with exactly two appends, the inbound line and then the bot's reply
\* line; nothing else appends.
C3_AppendsPerMessage ==
    \A h \in Handlers :
        LET hr == handlers[h]
        IN  /\ Started(h) =>
                /\ Len(hr.appends) >= 1
                /\ hr.appends[1] = <<FALSE, format_line(hr.msg, FALSE)>>
            /\ (Finished(h) /\ ~TelegramFailed(h)) =>
                  Len(hr.appends) = (IF IsQuery(h) THEN 2 ELSE 1)
            /\ Len(hr.appends) = 2 =>
                /\ hr.pc = "done"
                /\ hr.appends[2] = <<TRUE, BotLine(hr.replied)>>

\* C4: the prompt of an addressed message is its text with every mention of
\* the bot removed, trimmed.
C4_PromptIsResidual ==
    \A h \in Handlers :
        (handlers[h].pc \in {"hint", "typing", "post"}
         /\ Addresses(handlers[h].msg.text))
        => handlers[h].prompt = Residual(handlers[h].msg.text)

\* C5: a message that addresses the bot and has nothing left besides
\* mentions and whitespace gets the usage hint (unless the send to Telegram
\* fails), no completion call and no bot-authored history line.
C5_MentionOnlyGetsHint ==
    \A h \in Handlers :
        (/\ Started(h)
         /\ Addresses(handlers[h].msg.text)
         /\ Residual(handlers[h].msg.text) = <<>>)
        => /\ handlers[h].calls = 0
           /\ Len(handlers[h].appends) = 1
           /\ handlers[h].pc \in {"hint", "done"} \/ TelegramFailed(h)
           /\ handlers[h].pc = "done" => handlers[h].replied = UsageHint

\* C6: a handler that has ended, no call to Telegram having failed, has
\* replied if and only if its message addressed the bot, whatever the
\* completion service did.
C6_AddressedGetsReply ==
    \A h \in Handlers :
        (Finished(h) /\ ~TelegramFailed(h)) =>
            (Addresses(handlers[h].msg.text) <=> handlers[h].replied # None)

\* C7: a response that is not JSON or lacks choices[0].message.content makes
\* ask_grok return the malformed-response placeholder; it never raises.
C7_MalformedNeverRaises ==
    \A h \in Handlers :
        handlers[h].resp.kind \in {"nonjson", "nofields"} =>
            /\ handlers[h].pc \in {"closing", "answer", "done"} \/ TelegramFailed(h)
            /\ handlers[h].pc = "answer" => handlers[h].answer = MALFORMED
            /\ handlers[h].pc = "done" => handlers[h].replied = MALFORMED

\* C8: after a non-2xx status, connection failure or timeout ask_grok
\* returns the API-error placeholder and does not raise; the handler sends
\* the placeholder as the reply and appends it as a bot-authored line.
C8_TransportFailureIsReplied ==
    \A h \in Handlers :
        handlers[h].resp.kind = "httperror" =>
            LET placeholder == API_ERROR_PREFIX \o handlers[h].resp.body \o <<">">>
            IN  /\ handlers[h].pc \in {"closing", "answer", "done"}
                /\ handlers[h].calls = 1
                /\ handlers[h].pc = "answer" => handlers[h].answer = placeholder
                /\ handlers[h].pc = "done" =>
                    /\ handlers[h].replied = placeholder
                    /\ Len(handlers[h].appends) = 2
                    /\ handlers[h].appends[2] = <<TRUE, BotLine(placeholder)>>

DefaultMaxSnippetLen == 160
DefaultMessageLimit == 30

\* C9: with both credentials set and MAX_SNIPPET_LEN and MESSAGE_LIMIT not
\* configured, the module loads with the defaults 160 and 30; only a missing
\* credential stops the start.
C9_DefaultsWhenUnconfigured ==
    /\ (/\ mainpc # "load"
        /\ Truthy(env.BOT_TOKEN) /\ Truthy(env.XAI_API_KEY)
        /\ env.MAX_SNIPPET_LEN = None /\ env.MESSAGE_LIMIT = None)
       => /\ mainpc # "crashed"
          /\ MAX_SNIPPET_LEN = DefaultMaxSnippetLen
          /\ MESSAGE_HISTORY_LIMIT = DefaultMessageLimit
    /\ (mainpc = "crashed" /\ getMeCalls = 0)
       => ~Truthy(env.BOT_TOKEN) \/ ~Truthy(env.XAI_API_KEY)

\* C10: handling a message whose text does not contain the handle (case
\* ignored) appends the message's line to its conversation's history and
\* changes nothing else: the handler ends without reply or completion call.
C10_NotAddressedOnlyAppends ==
    [][\A h \in Handlers :
          (/\ handlers[h].pc = "idle"
           /\ handlers'[h].pc # "idle"
           /\ ~Addresses(handlers'[h].msg.text))
          => LET m == handlers'[h].msg
                 entry == <<FALSE, format_line(m, FALSE)>>
                 grown == Append(HISTORY[m.chat], entry)
             IN  /\ HISTORY' = [HISTORY EXCEPT ![m.chat] =
                        LastN(grown, Min(MESSAGE_HISTORY_LIMIT, Len(grown)))]
                 /\ handlers'[h].pc = "done"
                 /\ handlers'[h].replied = None
                 /\ handlers'[h].calls = 0
                 /\ handlers'[h].appends = <<entry>>
                 /\ \A g \in Handlers \ {h} : handlers'[g] = handlers[g]
                 /\ UNCHANGED <<env, mainpc, BOT_USERNAME, BOT_DISPLAY, BOT_ID,
                                MAX_SNIPPET_LEN, MESSAGE_HISTORY_LIMIT,
                                getMeCalls>>
      ]_vars

\* a message that did not address the bot has been handled
C10_Witness ==
    \E h \in Handlers :
        /\ handlers[h].pc = "done"
        /\ ~Addresses(handlers[h].msg.text)
        /\ Len(handlers[h].appends) = 1
        /\ handlers[h].replied = None
        /\ handlers[h].calls = 0

\* the line that the message replied to by handler h's message gets
RepliedLineOf(h) ==
    LET r == handlers[h].msg.reply_to_message
    IN  IF r.from_user.id = BOT_ID
          THEN BotLine(r.text)
          ELSE <<">", " ">> \o format_user(r.from_user) \o <<":", " ">>
               \o (IF Len(r.text) > MAX_SNIPPET_LEN
                     THEN SubSeq(r.text, 1, MAX_SNIPPET_LEN - 1) \o <<ELLIPSIS>>
                     ELSE r.text)

\* the request of handler h has a "Replied message" block
HasRepliedBlock(h) ==
    \E i \in 1..Len(handlers[h].blocks) : IsPrefix(REPLIED_LABEL, handlers[h].blocks[i])

\* C11: an assembled request has the "Replied message" block if and only if
\* the triggering message replies to another message whose rendered line is
\* not equal to any line of the history snapshot taken for the request; the
\* block then carries that line.
C11_RepliedBlockIffNotInSnapshot ==
    \A h \in Handlers :
        handlers[h].pc = "post" =>
            LET hr == handlers[h]
                replies == hr.msg.reply_to_message.present
                line == RepliedLineOf(h)
            IN  /\ HasRepliedBlock(h) <=>
                       (replies /\ \A i \in 1..Len(hr.history_lines) :
                                       hr.history_lines[i] # line)
                /\ HasRepliedBlock(h) =>
                       \E i \in 1..Len(hr.blocks) : hr.blocks[i] = REPLIED_LABEL \o line

\* a query that replies to a message whose line is in the snapshot is in
\* flight without the block, next to a snapshot of two lines
C11_Witness ==
    \E h \in Handlers :
        /\ handlers[h].pc = "post"
        /\ handlers[h].msg.reply_to_message.present
        /\ Len(handlers[h].history_lines) = 2
        /\ handlers[h].history_lines[1] = RepliedLineOf(h)
        /\ ~HasRepliedBlock(h)

\* 1 for a "Chat history" block, 2 for "Replied message", 3 for "User prompt"
BlockKind(b) ==
    IF IsPrefix(CHAT_HISTORY_LABEL, b) THEN 1
    ELSE IF IsPrefix(REPLIED_LABEL, b) THEN 2
    ELSE IF IsPrefix(PROMPT_LABEL, b) THEN 3
    ELSE 0

RECURSIVE LinesUpTo(_, _)
\* the first n lines of s, one per line, in the order of s (n >= 1)
LinesUpTo(s, n) ==
    IF n = 1 THEN s[1] ELSE LinesUpTo(s, n - 1) \o <<NL>> \o s[n]

\* s is a run of consecutive elements of t
IsWindowOf(s, t) ==
    \E k \in 0..(Len(t) - Len(s)) : \A i \in 1..Len(s) : s[i] = t[k + i]

\* C12: in every assembled request the blocks come in the order Chat
\* history, Replied message, User prompt; the User prompt block is always
\* there and last; the Chat history block is there when the snapshot has
\* lines, and lists them in the order in which they were appended.
C12_BlocksInOrder ==
    \A h \in Handlers :
        handlers[h].pc = "post" =>
            LET hr == handlers[h]
                b == hr.blocks
            IN  /\ b # <<>>
                /\ b[Len(b)] = PROMPT_LABEL \o hr.prompt
                /\ \A i \in 1..Len(b) : BlockKind(b[i]) \in 1..3
                /\ \A i, j \in 1..Len(b) : i < j => BlockKind(b[i]) < BlockKind(b[j])
                /\ (hr.history_lines # <<>>) <=> (BlockKind(b[1]) = 1)
                /\ BlockKind(b[1]) = 1 =>
                       b[1] = CHAT_HISTORY_LABEL
                              \o LinesUpTo(hr.history_lines, Len(hr.history_lines))
                /\ IsWindowOf(hr.history_lines,
                              [i \in 1..Len(appended[hr.msg.chat]) |->
                                  appended[hr.msg.chat][i][2]])

\* a request with all three blocks and two history lines is in flight
C12_Witness ==
    \E h \in Handlers :
        /\ handlers[h].pc = "post"
        /\ Len(handlers[h].blocks) = 3
        /\ Len(handlers[h].history_lines) = 2
        /\ handlers[h].history_lines[1] # handlers[h].history_lines[2]

\* the text of message m that format_line renders
RawText(m) ==
    IF m.text # None /\ m.text # <<>> THEN m.text
    ELSE IF m.caption # None /\ m.caption # <<>> THEN m.caption
    ELSE <<"[">> \o m.content_type \o <<" ", "m", "e", "s", "s", "a", "g", "e", "]">>

Flat(ch) == IF ch = NL THEN " " ELSE ch

\* part is raw on one line, cut to maxLen characters with the ellipsis as
\* the last one when raw is longer
CutTo(raw, part, maxLen) ==
    /\ Len(part) <= maxLen
    /\ Len(raw) <= maxLen =>
          /\ Len(part) = Len(raw)
          /\ \A i \in 1..Len(raw) : part[i] = Flat(raw[i])
    /\ Len(raw) > maxLen =>
          /\ Len(part) = maxLen
          /\ part[maxLen] = ELLIPSIS
          /\ \A i \in 1..(maxLen - 1) : part[i] = Flat(raw[i])

\* line is the label followed by the cut text
LabelledCut(line, label, raw, maxLen) ==
    /\ IsPrefix(label, line)
    /\ CutTo(raw, SubSeq(line, Len(label) + 1, Len(line)), maxLen)

UserLabel(u) == <<">", " ">> \o format_user(u) \o <<":", " ">>

BotLabel == <<">", " ">> \o BOT_DISPLAY \o YOU_SUFFIX

\* C13 as stated: every line that format_line returns, the author label
\* included, has at most MAX_SNIPPET_LEN characters, and a line whose text
\* was cut ends with the ellipsis.
C13_WholeLineWithinMaxLen ==
    \A h \in Handlers :
        Started(h) =>
            \A i \in 1..Len(handlers[h].appends) :
                LET line == handlers[h].appends[i][2]
                IN  /\ Len(line) <= MAX_SNIPPET_LEN
                    /\ (i = 1 /\ Len(RawText(handlers[h].msg)) > MAX_SNIPPET_LEN)
                          => line[Len(line)] = ELLIPSIS

\* C13 amended: with MAX_SNIPPET_LEN >= 1 every line is the author label
\* followed by the text on one line; the text part has at most
\* MAX_SNIPPET_LEN characters, and when the text was longer it is its first
\* MAX_SNIPPET_LEN - 1 characters and the ellipsis, MAX_SNIPPET_LEN in all.
C13_TextPartWithinMaxLen ==
    \A h \in Handlers :
        (Started(h) /\ MAX_SNIPPET_LEN >= 1) =>
            LET hr == handlers[h]
            IN  /\ LabelledCut(hr.appends[1][2], UserLabel(hr.msg.from_user),
                               RawText(hr.msg), MAX_SNIPPET_LEN)
                /\ Len(hr.appends) = 2 =>
                       LabelledCut(hr.appends[2][2], BotLabel, hr.replied,
                                   MAX_SNIPPET_LEN)

\* a text of three characters was cut to two, and a text with a line break
\* was kept whole
C13_Witness ==
    \E h \in Handlers :
        /\ Started(h)
        /\ MAX_SNIPPET_LEN = 2
        /\ handlers[h].msg.text = <<"x", NL, "x">>
        /\ handlers[h].msg.from_user = Alice
        /\ handlers[h].appends[1][2] = UserLabel(Alice) \o <<"x", ELLIPSIS>>

\* C14: no line in a history buffer contains a line break.
C14_NoNewlineInHistory ==
    \A c \in Chats : \A i \in 1..Len(HISTORY[c]) :
        \A k \in 1..Len(HISTORY[c][i][2]) : HISTORY[c][i][2][k] # NL

\* C15: bot.get_me() is issued at most once; a handler that has gone past
\* await ensure_identity() finds the identity set and never waits for
\* get_me itself; once set, BOT_USERNAME, BOT_DISPLAY and BOT_ID keep
\* their values.
C15_IdentityInitialisedOnce ==
    /\ [](/\ getMeCalls <= 1
          /\ \A h \in Handlers :
                handlers[h].pc # "idle" =>
                    /\ handlers[h].pc # "get_me"
                    /\ BOT_USERNAME # None /\ BOT_DISPLAY # None /\ BOT_ID # 0)
    /\ [][BOT_USERNAME # None =>
            UNCHANGED <<BOT_USERNAME, BOT_DISPLAY, BOT_ID>>]_vars

\* two handlers have used the identity that one get_me call set
C15_Witness ==
    /\ getMeCalls = 1
    /\ BOT_USERNAME = <<"@", "b">> /\ BOT_DISPLAY = <<"G">> /\ BOT_ID = 9
    /\ \A h \in Handlers : Started(h)
    /\ \E h \in Handlers : handlers[h].pc = "post"

\* C16: a step of a handler whose message belongs to conversation A leaves
\* the history buffer of every other conversation as it was, and every line
\* of the snapshot in a request for A was appended to A's buffer.
C16_ConversationsAreIsolated ==
    /\ [](\A h \in Handlers :
            handlers[h].pc = "post" =>
                \A i \in 1..Len(handlers[h].history_lines) :
                    \E k \in 1..Len(appended[handlers[h].msg.chat]) :
                        appended[handlers[h].msg.chat][k][2] = handlers[h].history_lines[i])
    /\ [][\A h \in Handlers :
            (handlers'[h] # handlers[h] /\ handlers'[h].pc # "idle") =>
                \A c \in Chats \ {handlers'[h].msg.chat} : HISTORY'[c] = HISTORY[c]
        ]_vars

\* a request for conversation 1 is in flight with a history line, while
\* the buffer of conversation 2 holds a line that is not in the request
C16_Witness ==
    \E h \in Handlers :
        /\ handlers[h].pc = "post"
        /\ handlers[h].msg.chat = 1
        /\ handlers[h].history_lines # <<>>
        /\ HISTORY[2] # <<>>
        /\ \A i \in 1..Len(handlers[h].history_lines) :
              handlers[h].history_lines[i] # HISTORY[2][1][2]

\* the lines of conversation c's buffer, oldest first
BufferLines(c) == [i \in 1..Len(HISTORY[c]) |-> HISTORY[c][i][2]]

\* C17: the snapshot taken for a request holds the lines of the buffer as
\* it is at that moment, and taking it leaves every buffer unchanged; while
\* the completion call is in flight the snapshot and the request built from
\* it stay as they are, whatever other handlers append; a snapshot taken
\* while the buffer still equals an earlier snapshot is equal to it.
C17_SnapshotIsIndependentCopy ==
    [][\A h \in Handlers :
          /\ (handlers[h].pc = "typing" /\ handlers'[h].pc = "post") =>
                /\ handlers'[h].history_lines = BufferLines(handlers[h].msg.chat)
                /\ HISTORY' = HISTORY
                /\ \A g \in Handlers :
                      (/\ handlers[g].pc = "post"
                       /\ handlers[g].msg.chat = handlers[h].msg.chat
                       /\ handlers[g].history_lines = BufferLines(handlers[g].msg.chat))
                      => handlers'[h].history_lines = handlers[g].history_lines
          /\ (handlers[h].pc = "post" /\ handlers'[h].pc = "post") =>
                /\ handlers'[h].history_lines = handlers[h].history_lines
                /\ handlers'[h].blocks = handlers[h].blocks
      ]_vars

\* a request is in flight whose snapshot has one line while another handler
\* has since appended a second line to the same buffer
C17_Witness ==
    \E h \in Handlers :
        /\ handlers[h].pc = "post"
        /\ Len(handlers[h].history_lines) = 1
        /\ Len(HISTORY[handlers[h].msg.chat]) = 2
        /\ handlers[h].blocks[1] = CHAT_HISTORY_LABEL \o handlers[h].history_lines[1]
        /\ HISTORY[handlers[h].msg.chat][1][2] = handlers[h].history_lines[1]

IsSuffix(p, s) == Len(p) <= Len(s) /\ SubSeq(s, Len(s) - Len(p) + 1, Len(s)) = p

\* handler h has shared no moment with another handler of its conversation:
\* none was under way when h started and none has started since (handlers
\* start in the order of their numbers)
HandledAlone(h) ==
    /\ ~handlers[h].overlapped
    /\ \A g \in Handlers :
          (g > h /\ handlers[g].pc # "idle") => handlers[g].msg.chat # handlers[h].msg.chat

\* C18: when no other handler of the conversation interleaves with the
\* handler of a query and the capacity is at least 1, the snapshot of the
\* request ends with the line of the triggering message, so the request
\* starts with a "Chat history" block whose last line is that line.
C18_SnapshotEndsWithOwnLine ==
    \A h \in Handlers :
        (handlers[h].pc = "post" /\ MESSAGE_HISTORY_LIMIT >= 1 /\ HandledAlone(h)) =>
            LET hr == handlers[h]
                own == format_line(hr.msg, FALSE)
            IN  /\ hr.history_lines # <<>>
                /\ hr.history_lines[Len(hr.history_lines)] = own
                /\ hr.appends[1][2] = own
                /\ BlockKind(hr.blocks[1]) = 1
                /\ Len(hr.history_lines) = 1 => hr.blocks[1] = CHAT_HISTORY_LABEL \o own
                /\ Len(hr.history_lines) > 1 => IsSuffix(<<NL>> \o own, hr.blocks[1])

\* the second query of a conversation is in flight after the first was
\* answered: the buffer of capacity 2 has evicted, and the snapshot is the
\* bot's answer followed by the query's own line
C18_Witness ==
    \E h \in Handlers :
        /\ handlers[h].pc = "post"
        /\ HandledAlone(h)
        /\ MESSAGE_HISTORY_LIMIT = 2
        /\ Len(appended[handlers[h].msg.chat]) = 3
        /\ handlers[h].history_lines =
              <<BotLine(<<"o", "k">>), format_line(handlers[h].msg, FALSE)>>

====
